---- MODULE Spec2Model ----
(***************************************************************************)
(* RemoteExecutor (vmconnector.py): liveness probing, boot-time            *)
(* fingerprinting, the bounded wait for recovery and the retrying          *)
(* stream_execute, as a state machine with an explicit call stack.         *)
(*                                                                         *)
(* Fingerprints (the stripped output of `uptime -s`) are the numbers       *)
(* 1..MaxBoots: fingerprint n is the n-th boot of the host.  Empty is the  *)
(* empty string "" and NoneBT is Python's None.                            *)
(***************************************************************************)
EXTENDS Integers, Sequences, FiniteSets, TLC

\* ---------------------------------------------------------------- bounds
MaxBoots == 2      \* distinct boot fingerprints the host goes through
PipeCap == 1       \* lines an OS pipe holds before a writer blocks
MaxTimeoutArg == 2 \* largest timeout of a direct recovery-loop call
MaxIntervalArg == 1 \* largest poll interval of a direct recovery-loop call
MaxRunCount == 6   \* largest run_count a caller of the mock sets

\* ------------------------------------------------------ program constants
DefaultTimeout == 300  \* _wait_for_reboot_and_reconnect(timeout=300, ...)
DefaultInterval == 5   \* _wait_for_reboot_and_reconnect(..., interval=5)
ProbeTimeout == 5      \* subprocess.run(cmd, ..., timeout=5)
ConnRefused == 255     \* process.returncode == 255
DefaultRebootAfter == 5 \* RemoteExecutorMock: self.simulated_reboot_after = 5

NoneBT == -1
Empty == 0
Fingerprints == 1..MaxBoots

\* Exit codes a launched command can end with: success, the transport's
\* connection-refusal code, and one other non-zero code.
ExitCodes == {0, 1, ConnRefused}

\* What the remote process writes: every sequence of at most PipeCap + 1
\* lines, each to standard output or to standard error.
MaxWrites == PipeCap + 1
Scripts == UNION {[1..n -> {"out", "err"}] : n \in 0..MaxWrites}

PingOutcomes == {"ok", "fail", "exception"}

VARIABLES
    connected, boot_time,                      \* RemoteExecutor fields
    hostUp, hostBoot,                          \* the remote host
    op, pc, stack, retry_on_reboot, ret,       \* control
    current_boot_time, old_boot_time, timeout, interval, elapsed, \* locals
    script, outBuf, errBuf, exited, returncode, \* the launched process
    launches, recoveries, codes, recovered, timedOut, probeOk,
    causes, topRetry, startConnected, byRefresh, rcPrev, rcPrevByRefresh,
    rcSeen, lastSeen, lastAlive,               \* history
    run_count, simulated_reboot_after          \* RemoteExecutorMock fields

objVars == <<connected, boot_time>>
envVars == <<hostUp, hostBoot>>
localVars == <<current_boot_time, old_boot_time, timeout, interval, elapsed>>
procVars == <<script, outBuf, errBuf, exited, returncode>>
histVars == <<launches, recoveries, codes, recovered, timedOut, probeOk,
              causes, topRetry, startConnected, byRefresh, rcPrev,
              rcPrevByRefresh, rcSeen, lastSeen, lastAlive>>
mockVars == <<run_count, simulated_reboot_after>>
vars == <<objVars, envVars, op, pc, stack, retry_on_reboot, ret,
          localVars, procVars, histVars, mockVars>>

\* Python truthiness of a boot-time value: None and "" are falsy.
Truthy(v) == v # NoneBT /\ v # Empty

NoRet == [fn |-> "none", kind |-> "none", val |-> "none"]
Returns(f, v) == [fn |-> f, kind |-> "return", val |-> v]
Raises(f, e) == [fn |-> f, kind |-> "raise", val |-> e]

Frame(site) == [site |-> site, retry |-> retry_on_reboot]

Init ==
    /\ connected = FALSE
    /\ boot_time = NoneBT
    /\ hostUp \in BOOLEAN
    /\ hostBoot = 1
    /\ op = "none"
    /\ pc = "idle"
    /\ stack = <<>>
    /\ retry_on_reboot = TRUE
    /\ ret = NoRet
    /\ current_boot_time = NoneBT
    /\ old_boot_time = NoneBT
    /\ timeout = 0
    /\ interval = 0
    /\ elapsed = 0
    /\ script = <<>>
    /\ outBuf = 0
    /\ errBuf = 0
    /\ exited = FALSE
    /\ returncode = 0
    /\ launches = 0
    /\ recoveries = 0
    /\ codes = <<>>
    /\ recovered = 0
    /\ timedOut = FALSE
    /\ probeOk = FALSE
    /\ causes = {}
    /\ topRetry = TRUE
    /\ startConnected = FALSE
    /\ byRefresh = FALSE
    /\ rcPrev = NoneBT
    /\ rcPrevByRefresh = FALSE
    /\ rcSeen = NoneBT
    /\ lastSeen = NoneBT
    /\ lastAlive = NoneBT
    /\ run_count = 0
    /\ simulated_reboot_after = 0

\* ------------------------------------------------------------ the host
\* The host restarts: its boot fingerprint changes.
HostReboot ==
    /\ hostBoot < MaxBoots
    /\ hostBoot' = hostBoot + 1
    /\ UNCHANGED <<hostUp, objVars, op, pc, stack, retry_on_reboot, ret,
                   localVars, procVars, histVars, mockVars>>

\* The host stops or starts answering remote runs.
HostFlip ==
    /\ hostUp' = ~hostUp
    /\ UNCHANGED <<hostBoot, objVars, op, pc, stack, retry_on_reboot, ret,
                   localVars, procVars, histVars, mockVars>>

\* _get_boot_time: the stripped standard output of `uptime -s`; "" when the
\* run fails (ssh prints nothing on standard output) or throws.
get_boot_time == IF hostUp THEN hostBoot ELSE Empty

\* -------------------------------------------------------- calls by a caller
Idle == pc \in {"idle", "done"}

ResetLocals ==
    /\ current_boot_time' = NoneBT
    /\ old_boot_time' = NoneBT
    /\ timeout' = 0
    /\ interval' = 0
    /\ elapsed' = 0

ResetProc ==
    /\ script' = <<>>
    /\ outBuf' = 0
    /\ errBuf' = 0
    /\ exited' = FALSE
    /\ returncode' = 0

ResetHist(r) ==
    /\ launches' = 0
    /\ recoveries' = 0
    /\ codes' = <<>>
    /\ recovered' = 0
    /\ timedOut' = FALSE
    /\ causes' = {}
    /\ topRetry' = r
    /\ startConnected' = connected
    /\ rcPrev' = boot_time
    /\ rcPrevByRefresh' = byRefresh
    /\ rcSeen' = NoneBT

\* executor.is_alive()
CallIsAlive ==
    /\ Idle
    /\ lastAlive' = IF op = "is_alive" /\ ret = Returns("is_alive", "True")
                    THEN boot_time ELSE NoneBT
    /\ op' = "is_alive"
    /\ pc' = "is_alive"
    /\ stack' = <<>>
    /\ ret' = NoRet
    /\ ResetHist(TRUE)
    /\ UNCHANGED <<objVars, envVars, retry_on_reboot, localVars, procVars,
                   probeOk, byRefresh,
                   lastSeen, mockVars>>

\* executor.reconnect(): its first statement calls is_alive (line 76).
CallReconnect ==
    /\ Idle
    /\ lastAlive' = NoneBT
    /\ op' = "reconnect"
    /\ pc' = "is_alive"
    /\ stack' = <<Frame("L76")>>
    /\ ret' = NoRet
    /\ ResetHist(TRUE)
    /\ UNCHANGED <<objVars, envVars, retry_on_reboot, localVars, procVars,
                   probeOk, byRefresh,
                   lastSeen, mockVars>>

\* The first statements of _wait_for_reboot_and_reconnect (lines 183-184).
EnterWait(t, i) ==
    /\ timeout' = t
    /\ interval' = i
    /\ elapsed' = 0
    /\ old_boot_time' = boot_time
    /\ probeOk' = FALSE
    /\ pc' = "w_test"

\* executor._wait_for_reboot_and_reconnect(t, i)
CallWait ==
    /\ Idle
    /\ lastAlive' = NoneBT
    /\ \E t \in 0..MaxTimeoutArg, i \in 0..MaxIntervalArg : EnterWait(t, i)
    /\ op' = "wait"
    /\ stack' = <<>>
    /\ ret' = NoRet
    /\ ResetHist(TRUE)
    /\ UNCHANGED <<objVars, envVars, retry_on_reboot, current_boot_time,
                   procVars, byRefresh,
                   lastSeen, mockVars>>

\* executor.stream_execute(command, retry_on_reboot=r)
CallStreamExecute ==
    /\ Idle
    /\ lastAlive' = NoneBT
    /\ \E r \in BOOLEAN : retry_on_reboot' = r /\ ResetHist(r)
    /\ op' = "stream_execute"
    /\ pc' = "se_entry"
    /\ stack' = <<>>
    /\ ret' = NoRet
    /\ UNCHANGED <<objVars, envVars, localVars, procVars, probeOk, byRefresh,
                   lastSeen, mockVars>>

\* ------------------------------------------------------------- is_alive
\* is_alive with its three choices open: whether a successful probe stores
\* the fingerprint, what it returns, and whether a failed probe clears the
\* flag.
is_aliveVariant(stores, okResult, clears) ==
    /\ pc = "is_alive"
    /\ pc' = "unwind"
    /\ IF hostUp
       THEN /\ boot_time' = IF stores THEN hostBoot ELSE boot_time
            /\ connected' = TRUE
            /\ ret' = Returns("is_alive", okResult)
            /\ rcSeen' = hostBoot
            /\ lastSeen' = hostBoot
            /\ byRefresh' = FALSE
       ELSE /\ ret' = Returns("is_alive", "False")
            /\ connected' = IF clears THEN FALSE ELSE connected
            /\ UNCHANGED <<boot_time, rcSeen, lastSeen, byRefresh>>
    /\ UNCHANGED <<envVars, op, stack, retry_on_reboot, localVars, procVars,
                   launches, recoveries, codes, recovered, timedOut, probeOk,
                   causes, topRetry, startConnected, rcPrev, rcPrevByRefresh,
                   lastAlive, mockVars>>

\* is_alive with a fault: a failed probe sets connected to False.
is_aliveClearsFlag == is_aliveVariant(TRUE, "True", TRUE)

\* is_alive with a fault: the `return True` after a successful probe is
\* missing, so the call falls through to the ping and returns False.
is_aliveFallsThrough == is_aliveVariant(TRUE, "False", FALSE)

\* is_alive with a fault: a successful probe sets the flag but does not
\* store the fingerprint.
is_aliveDropsBootTime == is_aliveVariant(FALSE, "True", FALSE)

\* One run of `uptime -s` with a 5 s timeout; on exit code 0 the fingerprint
\* and the flag are stored.  Otherwise a ping, whose three outcomes all
\* return False and change nothing.
is_alive ==
    /\ pc = "is_alive"
    /\ pc' = "unwind"
    /\ IF hostUp
       THEN /\ boot_time' = hostBoot
            /\ connected' = TRUE
            /\ ret' = Returns("is_alive", "True")
            /\ rcSeen' = hostBoot
            /\ lastSeen' = hostBoot
            /\ byRefresh' = FALSE
       ELSE /\ \E ping \in PingOutcomes : ret' = Returns("is_alive", "False")
            /\ UNCHANGED <<objVars, rcSeen, lastSeen, byRefresh>>
    /\ UNCHANGED <<envVars, op, stack, retry_on_reboot, localVars, procVars,
                   launches, recoveries, codes, recovered, timedOut, probeOk,
                   causes, topRetry, startConnected, rcPrev, rcPrevByRefresh,
                   lastAlive, mockVars>>

\* reconnect, lines 80-87: the second query and the comparison with the
\* value read from self.boot_time after is_alive.
reconnect_compare ==
    /\ pc = "rc_get_boot_time"
    /\ pc' = "unwind"
    /\ LET new_boot_time == get_boot_time IN
       /\ boot_time' = new_boot_time
       /\ ret' = IF Truthy(current_boot_time) /\ current_boot_time # new_boot_time
                 THEN Raises("reconnect", "RemoteRebootDetected")
                 ELSE Returns("reconnect", "True")
    /\ byRefresh' = TRUE
    /\ lastSeen' = IF hostUp THEN hostBoot ELSE lastSeen
    /\ UNCHANGED <<connected, envVars, op, stack, retry_on_reboot, localVars,
                   procVars, launches, recoveries, codes, recovered, timedOut,
                   probeOk, causes, topRetry, startConnected, rcPrev,
                   rcPrevByRefresh, rcSeen,
                   lastAlive, mockVars>>

\* ------------------------------------------------------- stream_execute
\* Handler139 with a fault: the handler re-raises what it caught.
Handler139Reraises(exc) == exc

\* The handler of the first try block (line 139): every Exception is
\* replaced by RemoteExecutionError.
Handler139(exc) == "RemoteExecutionError"

\* Handler172 with a fault: any exception is retried while the flag is set.
Handler172RetriesAny(exc, r) == IF r THEN "retry" ELSE "wrap"

\* The handlers of the second try block (lines 172-179) for exception exc
\* in a frame whose flag is r: RemoteRebootDetected is retried or re-raised,
\* anything else is replaced by RemoteExecutionError.
Handler172(exc, r) ==
    IF exc = "RemoteRebootDetected"
    THEN IF r THEN "retry" ELSE "reraise"
    ELSE "wrap"

\* Classify with a fault: every non-zero exit code starts a recovery.
ClassifyRecoversAll(code) == IF code # 0 THEN "recover" ELSE "ok"

\* Lines 162-170: what the exit code of the launched command leads to.
Classify(code) ==
    IF code = ConnRefused THEN "recover"
    ELSE IF code # 0 THEN "fail"
    ELSE "ok"

\* Lines 165-168, after the recovery loop returned: recurse or give up.
AfterWait(r) == IF r THEN "recurse" ELSE "exhausted"

\* Lines 135-138, after reconnect returned: recurse, or a bare raise with
\* no active exception, which is a RuntimeError.
AfterReconnect(r) == IF r THEN "recurse" ELSE "RuntimeError"

\* RecurseFlag with a fault: the recursive call leaves the flag out, so
\* that its default (True) applies.
RecurseFlagDefault == TRUE

\* The flag every recursive call passes (lines 136, 166, 175).
RecurseFlag == FALSE

\* The current function completes with r.
Complete(r) ==
    /\ ret' = r
    /\ pc' = "unwind"

\* stream_execute calls itself from `site`; `rest` is the stack below the
\* frame that makes the call and r is that frame's flag.
Recurse(site, rest, r) ==
    /\ stack' = Append(rest, [site |-> site, retry |-> r])
    /\ retry_on_reboot' = RecurseFlag
    /\ pc' = "se_entry"
    /\ ret' = NoRet

\* Exception exc reaches the second try block of a frame with flag r.
Catch172(exc, rest, r) ==
    LET h == Handler172(exc, r) IN
    /\ causes' = causes \cup {<<exc, 172, r>>}
    /\ IF h = "retry"
       THEN Recurse("L175", rest, r)
       ELSE /\ stack' = rest
            /\ retry_on_reboot' = r
            /\ Complete(Raises("stream_execute",
                   IF h = "reraise" THEN exc ELSE "RemoteExecutionError"))

\* Exception exc reaches the first try block (line 139).
Catch139(exc, rest, r) ==
    /\ causes' = causes \cup {<<exc, 139, r>>}
    /\ stack' = rest
    /\ retry_on_reboot' = r
    /\ Complete(Raises("stream_execute", Handler139(exc)))

\* Line 132: not connected, so reconnect is called (which calls is_alive);
\* connected, so the command is about to be launched.
stream_execute_entry ==
    /\ pc = "se_entry"
    /\ IF ~connected
       THEN /\ stack' = stack \o <<Frame("L134"), Frame("L76")>>
            /\ pc' = "is_alive"
            /\ rcPrev' = boot_time
            /\ rcPrevByRefresh' = byRefresh
            /\ rcSeen' = NoneBT
       ELSE /\ pc' = "se_popen"
            /\ UNCHANGED <<stack, rcPrev, rcPrevByRefresh, rcSeen>>
    /\ UNCHANGED <<objVars, envVars, op, retry_on_reboot, ret, localVars,
                   procVars, launches, recoveries, codes, recovered, timedOut,
                   probeOk, causes, topRetry, startConnected, byRefresh,
                   lastSeen, lastAlive, mockVars>>

\* Line 145: subprocess.Popen starts ssh with two pipes, or throws OSError,
\* which the second try block catches.
stream_execute_popen ==
    /\ pc = "se_popen"
    /\ \/ /\ \E s \in Scripts : script' = s
          /\ outBuf' = 0
          /\ errBuf' = 0
          /\ exited' = FALSE
          /\ returncode' = 0
          /\ launches' = launches + 1
          /\ pc' = "se_stdout"
          /\ UNCHANGED <<stack, retry_on_reboot, ret, causes>>
       \/ /\ Catch172("OSError", stack, retry_on_reboot)
          /\ UNCHANGED <<procVars, launches>>
    /\ UNCHANGED <<objVars, envVars, op, localVars, recoveries, codes,
                   recovered, timedOut, probeOk, topRetry, startConnected,
                   byRefresh, rcPrev, rcPrevByRefresh, rcSeen,
                   lastSeen, lastAlive, mockVars>>

Streaming == pc \in {"se_stdout", "se_stderr", "se_wait"}

\* The process writes its next line; it blocks while that pipe is full.
ProcWrite ==
    /\ Streaming
    /\ ~exited
    /\ script # <<>>
    /\ IF Head(script) = "out"
       THEN outBuf < PipeCap /\ outBuf' = outBuf + 1 /\ UNCHANGED errBuf
       ELSE errBuf < PipeCap /\ errBuf' = errBuf + 1 /\ UNCHANGED outBuf
    /\ script' = Tail(script)
    /\ UNCHANGED <<exited, returncode, objVars, envVars, op, pc, stack,
                   retry_on_reboot, ret, localVars, histVars, mockVars>>

\* The process ends and its pipes close: after its last line with any exit
\* code, or with the connection-refusal code once the host stopped answering.
ProcExit ==
    /\ Streaming
    /\ ~exited
    /\ script = <<>> \/ ~hostUp
    /\ exited' = TRUE
    /\ \E c \in ExitCodes :
          /\ ~hostUp => c = ConnRefused
          /\ returncode' = c
    /\ script' = <<>>
    /\ UNCHANGED <<outBuf, errBuf, objVars, envVars, op, pc, stack,
                   retry_on_reboot, ret, localVars, histVars, mockVars>>

\* Lines 153-154: `for line in process.stdout` takes a line, or ends at
\* end-of-file (the pipe is empty and closed).
ReadStdout ==
    /\ pc = "se_stdout"
    /\ IF outBuf > 0
       THEN outBuf' = outBuf - 1 /\ UNCHANGED pc
       ELSE exited /\ pc' = "se_stderr" /\ UNCHANGED outBuf
    /\ UNCHANGED <<script, errBuf, exited, returncode, objVars, envVars, op,
                   stack, retry_on_reboot, ret, localVars, histVars, mockVars>>

\* Lines 157-158: the same for process.stderr, after stdout ended.
ReadStderr ==
    /\ pc = "se_stderr"
    /\ IF errBuf > 0
       THEN errBuf' = errBuf - 1 /\ UNCHANGED pc
       ELSE exited /\ pc' = "se_wait" /\ UNCHANGED errBuf
    /\ UNCHANGED <<script, outBuf, exited, returncode, objVars, envVars, op,
                   stack, retry_on_reboot, ret, localVars, histVars, mockVars>>

\* Lines 160-170: process.wait() and the classification of the exit code.
stream_execute_wait ==
    /\ pc = "se_wait"
    /\ exited
    /\ codes' = Append(codes, returncode)
    /\ LET c == Classify(returncode) IN
       CASE c = "ok" ->
              /\ Complete(Returns("stream_execute", "None"))
              /\ UNCHANGED <<stack, retry_on_reboot, causes, recoveries,
                             localVars, probeOk>>
         [] c = "recover" ->
              /\ stack' = Append(stack, Frame("L164"))
              /\ EnterWait(DefaultTimeout, DefaultInterval)
              /\ recoveries' = recoveries + 1
              /\ UNCHANGED <<retry_on_reboot, ret, causes, current_boot_time>>
         [] OTHER ->
              /\ Catch172("RemoteExecutionError", stack, retry_on_reboot)
              /\ UNCHANGED <<recoveries, localVars, probeOk>>
    /\ UNCHANGED <<objVars, envVars, op, procVars, launches, recovered,
                   timedOut, topRetry, startConnected, byRefresh, rcPrev,
                   rcPrevByRefresh, rcSeen,
                   lastSeen, lastAlive, mockVars>>

\* ------------------------------------------ _wait_for_reboot_and_reconnect
\* wait_test with a fault: the timeout marks the executor disconnected.
wait_testDisconnects ==
    /\ pc = "w_test"
    /\ IF elapsed < timeout
       THEN pc' = "w_probe" /\ UNCHANGED <<ret, timedOut, connected>>
       ELSE /\ Complete(Raises("wait", "RemoteExecutionError"))
            /\ timedOut' = TRUE
            /\ connected' = FALSE
    /\ UNCHANGED <<boot_time, envVars, op, stack, retry_on_reboot, localVars,
                   procVars, launches, recoveries, codes, recovered, probeOk,
                   causes, topRetry, startConnected, byRefresh, rcPrev,
                   rcPrevByRefresh, rcSeen, lastSeen, lastAlive, mockVars>>

\* Line 186, the loop test, and line 205 when it fails.
wait_test ==
    /\ pc = "w_test"
    /\ IF elapsed < timeout
       THEN pc' = "w_probe" /\ UNCHANGED <<ret, timedOut>>
       ELSE /\ Complete(Raises("wait", "RemoteExecutionError"))
            /\ timedOut' = TRUE
    /\ UNCHANGED <<objVars, envVars, op, stack, retry_on_reboot, localVars,
                   procVars, launches, recoveries, codes, recovered, probeOk,
                   causes, topRetry, startConnected, byRefresh, rcPrev,
                   rcPrevByRefresh, rcSeen,
                   lastSeen, lastAlive, mockVars>>

\* Lines 188-198: one boot-time query, which takes 1..ProbeTimeout seconds;
\* a non-empty answer ends the loop with True.
wait_probe ==
    /\ pc = "w_probe"
    /\ \E d \in 1..ProbeTimeout : elapsed' = elapsed + d
    /\ LET new_boot_time == get_boot_time IN
       IF Truthy(new_boot_time)
       THEN /\ connected' = TRUE
            /\ boot_time' = new_boot_time
            /\ Complete(Returns("wait", "True"))
            /\ probeOk' = TRUE
            /\ recovered' = recovered + 1
            /\ byRefresh' = FALSE
            /\ lastSeen' = new_boot_time
       ELSE /\ pc' = "w_sleep"
            /\ UNCHANGED <<objVars, ret, probeOk, recovered, byRefresh,
                           lastSeen>>
    /\ UNCHANGED <<envVars, op, stack, retry_on_reboot, current_boot_time,
                   old_boot_time, timeout, interval, procVars, launches,
                   recoveries, codes, timedOut, causes, topRetry,
                   startConnected, rcPrev, rcPrevByRefresh, rcSeen,
                   lastAlive, mockVars>>

\* Line 203: time.sleep(interval).
wait_sleep ==
    /\ pc = "w_sleep"
    /\ elapsed' = elapsed + interval
    /\ pc' = "w_test"
    /\ UNCHANGED <<objVars, envVars, op, stack, retry_on_reboot, ret,
                   current_boot_time, old_boot_time, timeout, interval,
                   procVars, histVars, mockVars>>

\* ------------------------------------------------------- return and raise
\* The completed call was made from frame f, above the stack `rest`.
Resume(f, rest) ==
    CASE f.site = "L76" ->
           \* reconnect, lines 76-79: is_alive never raises
           /\ stack' = rest
           /\ retry_on_reboot' = f.retry
           /\ IF ret.val = "False"
              THEN /\ Complete(Returns("reconnect", "False"))
                   /\ UNCHANGED current_boot_time
              ELSE /\ current_boot_time' = boot_time
                   /\ pc' = "rc_get_boot_time"
                   /\ ret' = NoRet
           /\ UNCHANGED causes
      [] f.site = "L134" ->
           \* stream_execute, lines 134-140: the value reconnect returns
           \* is not looked at
           /\ IF ret.kind = "raise"
              THEN Catch139(ret.val, rest, f.retry)
              ELSE IF AfterReconnect(f.retry) = "recurse"
              THEN Recurse("L136", rest, f.retry) /\ UNCHANGED causes
              ELSE Catch139(AfterReconnect(f.retry), rest, f.retry)
           /\ UNCHANGED current_boot_time
      [] f.site = "L136" ->
           /\ IF ret.kind = "raise"
              THEN Catch139(ret.val, rest, f.retry)
              ELSE /\ stack' = rest
                   /\ retry_on_reboot' = f.retry
                   /\ Complete(Returns("stream_execute", ret.val))
                   /\ UNCHANGED causes
           /\ UNCHANGED current_boot_time
      [] f.site = "L164" ->
           \* stream_execute, lines 164-168: after the recovery loop
           /\ IF ret.kind = "raise"
              THEN Catch172(ret.val, rest, f.retry)
              ELSE IF AfterWait(f.retry) = "recurse"
              THEN Recurse("L166", rest, f.retry) /\ UNCHANGED causes
              ELSE Catch172("RemoteExecutionError", rest, f.retry)
           /\ UNCHANGED current_boot_time
      [] f.site = "L166" ->
           /\ IF ret.kind = "raise"
              THEN Catch172(ret.val, rest, f.retry)
              ELSE /\ stack' = rest
                   /\ retry_on_reboot' = f.retry
                   /\ Complete(Returns("stream_execute", ret.val))
                   /\ UNCHANGED causes
           /\ UNCHANGED current_boot_time
      [] OTHER ->
           \* "L175": a call made inside the except block; whatever it
           \* returns or raises leaves the frame unchanged
           /\ stack' = rest
           /\ retry_on_reboot' = f.retry
           /\ Complete([ret EXCEPT !.fn = "stream_execute"])
           /\ UNCHANGED <<causes, current_boot_time>>

\* A call completes: its caller goes on, or the outcome reaches the caller
\* of the executor.
Unwind ==
    /\ pc = "unwind"
    /\ IF stack = <<>>
       THEN /\ pc' = "done"
            /\ ResetLocals
            /\ ResetProc
            /\ UNCHANGED <<stack, retry_on_reboot, ret, causes>>
       ELSE /\ Resume(stack[Len(stack)], SubSeq(stack, 1, Len(stack) - 1))
            /\ UNCHANGED <<old_boot_time, timeout, interval, elapsed,
                           procVars>>
    /\ UNCHANGED <<objVars, envVars, op, launches, recoveries, codes,
                   recovered, timedOut, probeOk, topRetry, startConnected,
                   byRefresh, rcPrev, rcPrevByRefresh, rcSeen,
                   lastSeen, lastAlive, mockVars>>

\* ------------------------------------------------------- specifications
Host == HostReboot \/ HostFlip

Call == CallIsAlive \/ CallReconnect \/ CallWait \/ CallStreamExecute

Step ==
    \/ is_alive
    \/ reconnect_compare
    \/ stream_execute_entry
    \/ stream_execute_popen
    \/ ProcWrite
    \/ ProcExit
    \/ ReadStdout
    \/ ReadStderr
    \/ stream_execute_wait
    \/ wait_test
    \/ wait_probe
    \/ wait_sleep
    \/ Unwind

Next == Host \/ Call \/ Step

Spec == Init /\ [][Next]_vars

\* The interpreter keeps running the call in progress and the launched
\* process keeps running: a step that is possible again and again is taken
\* (so a host that keeps dropping ends the process).  The host and the
\* caller owe nothing.
FairSpec == Spec /\ SF_vars(Step)

\* ================================================= RemoteExecutorMock
\* The simulated executor of vmconnectormock.py.  It has no host and no
\* process: what a call does is decided by run_count, which the caller
\* sets before each call, and simulated_reboot_after.  Its call sites are
\* M72 (stream_execute calls reconnect) and M74 (stream_execute recurses).
mockFrame == <<envVars, localVars, procVars, launches, recoveries, codes,
               recovered, timedOut, probeOk, causes, byRefresh, rcPrev,
               rcPrevByRefresh, rcSeen, lastSeen, lastAlive>>

\* RemoteExecutorMock.__init__: not connected, a random boot time, and a
\* simulated reboot after five runs.
MockInit ==
    /\ connected = FALSE
    /\ boot_time \in Fingerprints
    /\ simulated_reboot_after = DefaultRebootAfter
    /\ run_count = 0
    /\ hostUp = TRUE
    /\ hostBoot = 1
    /\ op = "none"
    /\ pc = "idle"
    /\ stack = <<>>
    /\ retry_on_reboot = TRUE
    /\ ret = NoRet
    /\ current_boot_time = NoneBT
    /\ old_boot_time = NoneBT
    /\ timeout = 0
    /\ interval = 0
    /\ elapsed = 0
    /\ script = <<>>
    /\ outBuf = 0
    /\ errBuf = 0
    /\ exited = FALSE
    /\ returncode = 0
    /\ launches = 0
    /\ recoveries = 0
    /\ codes = <<>>
    /\ recovered = 0
    /\ timedOut = FALSE
    /\ probeOk = FALSE
    /\ causes = {}
    /\ topRetry = TRUE
    /\ startConnected = FALSE
    /\ byRefresh = FALSE
    /\ rcPrev = NoneBT
    /\ rcPrevByRefresh = FALSE
    /\ rcSeen = NoneBT
    /\ lastSeen = NoneBT
    /\ lastAlive = NoneBT

\* executor.simulated_reboot_after = n, as the tests do between calls; the
\* previous call's result is no longer looked at.
MockSetRebootAfter ==
    /\ Idle
    /\ \E n \in 0..MaxRunCount :
          n # simulated_reboot_after /\ simulated_reboot_after' = n
    /\ op' = "none"
    /\ pc' = "idle"
    /\ ret' = NoRet
    /\ UNCHANGED <<objVars, stack, retry_on_reboot, run_count, topRetry,
                   startConnected, mockFrame>>

\* executor.run_count = i; executor.stream_execute(command, retry_on_reboot=r)
MockCallStreamExecute ==
    /\ Idle
    /\ \E i \in 0..MaxRunCount : run_count' = i
    /\ \E r \in BOOLEAN : retry_on_reboot' = r /\ topRetry' = r
    /\ startConnected' = connected
    /\ op' = "stream_execute"
    /\ pc' = "m_entry"
    /\ stack' = <<>>
    /\ ret' = NoRet
    /\ UNCHANGED <<objVars, simulated_reboot_after, mockFrame>>

\* Line 70: a connected executor goes on to the simulated command, any
\* other calls reconnect inside the try block.
Mock_stream_execute_entry ==
    /\ pc = "m_entry"
    /\ IF connected
       THEN pc' = "m_run" /\ UNCHANGED stack
       ELSE pc' = "m_reconnect" /\ stack' = <<Frame("M72")>> \o stack
    /\ UNCHANGED <<objVars, op, retry_on_reboot, ret, mockVars, topRetry,
                   startConnected, mockFrame>>

\* The mock's is_alive (lines 36-46): alive exactly while run_count is
\* below simulated_reboot_after; the ping always succeeds, so a failed
\* check clears the flag.
Mock_is_alive == run_count < simulated_reboot_after

\* The mock's _get_boot_time (lines 63-66): a fresh random boot time when
\* run_count equals simulated_reboot_after, the stored one otherwise.
Mock_get_boot_time ==
    IF run_count = simulated_reboot_after THEN Fingerprints ELSE {boot_time}

\* The mock's reconnect (lines 50-59).
Mock_reconnect ==
    /\ pc = "m_reconnect"
    /\ pc' = "m_unwind"
    /\ connected' = Mock_is_alive
    /\ IF ~Mock_is_alive
       THEN ret' = Returns("reconnect", "False") /\ UNCHANGED boot_time
       ELSE \E new_boot_time \in Mock_get_boot_time :
              /\ boot_time' = new_boot_time
              /\ ret' = IF Truthy(boot_time) /\ boot_time # new_boot_time
                        THEN Raises("reconnect", "RemoteRebootDetected")
                        ELSE Returns("reconnect", "True")
    /\ UNCHANGED <<op, stack, retry_on_reboot, mockVars, topRetry,
                   startConnected, mockFrame>>

\* Lines 83-89: the simulated output, and the simulated failure when
\* run_count equals simulated_reboot_after.
Mock_run ==
    /\ pc = "m_run"
    /\ pc' = "m_unwind"
    /\ ret' = IF run_count = simulated_reboot_after
              THEN Raises("stream_execute", "RemoteExecutionError")
              ELSE Returns("stream_execute", "None")
    /\ UNCHANGED <<objVars, op, stack, retry_on_reboot, mockVars, topRetry,
                   startConnected, mockFrame>>

\* The handlers of lines 77-81: RemoteRebootDetected ends the call
\* normally, every other exception becomes RemoteExecutionError.
MockCatch(e) ==
    IF e = "RemoteRebootDetected"
    THEN Returns("stream_execute", "None")
    ELSE Raises("stream_execute", "RemoteExecutionError")

\* A callee has finished.  With no caller left the call is over; at M72
\* reconnect's result is dropped and line 73 recurses or line 76 raises
\* inside the try block; at M74 the recursive call's result is returned.
\* An exception arriving at either site meets the handlers.
MockUnwind ==
    /\ pc = "m_unwind"
    /\ IF stack = <<>>
       THEN pc' = "done" /\ UNCHANGED <<stack, retry_on_reboot, ret>>
       ELSE LET f == Head(stack)
                rest == Tail(stack) IN
            IF ret.kind = "raise"
            THEN /\ ret' = MockCatch(ret.val)
                 /\ retry_on_reboot' = f.retry
                 /\ stack' = rest
                 /\ pc' = "m_unwind"
            ELSE IF f.site = "M72"
            THEN IF f.retry
                 THEN /\ stack' = <<[site |-> "M74", retry |-> f.retry]>>
                                    \o rest
                      /\ retry_on_reboot' = FALSE
                      /\ ret' = NoRet
                      /\ pc' = "m_entry"
                 ELSE /\ ret' = MockCatch("RemoteExecutionError")
                      /\ retry_on_reboot' = f.retry
                      /\ stack' = rest
                      /\ pc' = "m_unwind"
            ELSE /\ ret' = Returns("stream_execute", ret.val)
                 /\ retry_on_reboot' = f.retry
                 /\ stack' = rest
                 /\ pc' = "m_unwind"
    /\ UNCHANGED <<objVars, op, mockVars, topRetry, startConnected,
                   mockFrame>>

MockNext ==
    \/ MockSetRebootAfter
    \/ MockCallStreamExecute
    \/ Mock_stream_execute_entry
    \/ Mock_reconnect
    \/ Mock_run
    \/ MockUnwind

MockSpec == MockInit /\ [][MockNext]_vars

\* ================================================================ claims
InStreamExecute == op = "stream_execute"
Finished == pc = "done"
REE == "RemoteExecutionError"
RRD == "RemoteRebootDetected"

\* C1: a top-level stream_execute with retry_on_reboot=True launches the
\* remote command at most twice, whatever the probes, the exit codes and
\* the host do.
C1_AtMostTwoLaunches ==
    (InStreamExecute /\ topRetry) => launches <= 2

\* C1 witness: a call that launched the command twice has finished.
C1_Witness ==
    InStreamExecute /\ topRetry /\ Finished /\ launches = 2

\* C2 (as claimed): one top-level stream_execute enters the recovery loop
\* at most once, so a second attempt that exits 255 starts no recovery wait.
C2_RecoveryAtMostOnce ==
    InStreamExecute => recoveries <= 1

\* C3 (as claimed): when a refresh finds the host reachable with one
\* fingerprint, and boot_time had been set by an earlier refresh, reconnect
\* raises RemoteRebootDetected exactly when that fingerprint differs from
\* the stored one, and returns True when it is the same.
C3_RebootReportedOnChange ==
    ( /\ pc = "unwind"
      /\ ret.fn = "reconnect"
      /\ rcPrevByRefresh
      /\ Truthy(rcPrev)
      /\ Truthy(rcSeen)
      /\ boot_time = rcSeen )
    => IF rcSeen # rcPrev
       THEN ret = Raises("reconnect", RRD)
       ELSE ret = Returns("reconnect", "True")

\* C4 (as claimed): a top-level stream_execute with retry_on_reboot=True
\* whose first launch exits 255, whose recovery wait finds the host again and
\* whose every further launch exits 0 (no launch fails to start) returns
\* normally, from any connection state.
C4_RetrySucceeds ==
    ( /\ InStreamExecute /\ Finished /\ topRetry
      /\ Len(codes) >= 1
      /\ codes[1] = ConnRefused
      /\ recovered >= 1
      /\ \A i \in 2..Len(codes) : codes[i] = 0
      /\ \A h \in {139, 172}, r \in BOOLEAN : <<"OSError", h, r>> \notin causes )
    => ret = Returns("stream_execute", "None")

\* C5: an exit code that is neither 0 nor 255 is the last event of the call
\* chain: no later launch, no recovery wait for it, and the call is on its
\* way out with RemoteExecutionError; the recovery loop runs only for exit
\* code 255; and a call that returns normally ended on exit code 0.
C5_NonRebootFailureIsFinal ==
    InStreamExecute =>
      /\ \A i \in 1..Len(codes) :
            codes[i] \notin {0, ConnRefused} =>
              /\ i = Len(codes)
              /\ launches = Len(codes)
              /\ pc \in {"unwind", "done"}
              /\ ret = Raises("stream_execute", REE)
      /\ recoveries = Cardinality({i \in 1..Len(codes) : codes[i] = ConnRefused})
      /\ (Finished /\ ret.kind = "return") =>
            (codes # <<>> /\ codes[Len(codes)] = 0)

\* C5 witness: a retried command that exits 1 has failed the call, after
\* one recovery for the first attempt and none for the second.
C5_Witness ==
    /\ InStreamExecute /\ Finished
    /\ codes = <<ConnRefused, 1>>
    /\ recoveries = 1
    /\ ret = Raises("stream_execute", REE)

\* C6 (as claimed): when the refresh of a not-connected call with
\* retry_on_reboot=True raises RemoteRebootDetected, the call goes on to
\* launch the command (or to try to) instead of failing.
C6_RebootAtRefreshRecovers ==
    ( /\ InStreamExecute /\ Finished /\ topRetry /\ ~startConnected
      /\ <<RRD, 139, TRUE>> \in causes )
    => \/ launches >= 1
       \/ \E r \in BOOLEAN : <<"OSError", 172, r>> \in causes

\* C7 (as claimed): a recovery loop none of whose probes found the host
\* ends with the timeout error, and none returns True later than
\* start + timeout.
C7_NoLateOk ==
    (pc = "unwind" /\ ret.fn = "wait") =>
      /\ ~probeOk => ret = Raises("wait", REE)
      /\ ret.kind = "return" => elapsed <= timeout

\* C8: after a recovery timeout inside a stream_execute call chain nothing
\* more is launched and no recovery wait starts, and the call fails with
\* RemoteExecutionError.
C8_TimeoutIsFatal ==
    /\ [][ (InStreamExecute /\ timedOut /\ timedOut') =>
             (launches' = launches /\ recoveries' = recoveries) ]_vars
    /\ []( (InStreamExecute /\ Finished /\ timedOut) =>
             ret = Raises("stream_execute", REE) )

\* C8 witness: a call with retry_on_reboot=True whose first recovery wait
\* timed out has finished.
C8_Witness ==
    /\ InStreamExecute /\ Finished /\ timedOut /\ topRetry
    /\ launches = 1 /\ recoveries = 1

InWait == pc \in {"w_test", "w_probe", "w_sleep"}

\* C9 (as claimed): every recovery loop ends, and every top-level
\* stream_execute call returns or raises.
C9_CallTerminates ==
    /\ InWait ~> ~InWait
    /\ (InStreamExecute /\ ~Finished) ~> Finished

\* C10: a top-level stream_execute fails only with RemoteExecutionError,
\* and RemoteRebootDetected never reaches the handlers of the second try
\* block.
C10_OnlyExecutionErrorEscapes ==
    InStreamExecute =>
      /\ (Finished /\ ret.kind = "raise") => ret.val = REE
      /\ \A r \in BOOLEAN : <<RRD, 172, r>> \notin causes

\* C10 witness: a failed call in which the reboot signal raised by
\* reconnect was caught and replaced by RemoteExecutionError.
C10_Witness ==
    /\ InStreamExecute /\ Finished
    /\ ret = Raises("stream_execute", REE)
    /\ \E r \in BOOLEAN : <<RRD, 139, r>> \in causes

\* C11 (as claimed): boot_time is None until a probe succeeds, and from then
\* on it is the fingerprint the most recent successful probe returned.
C11_BootTimeIsLastObserved ==
    boot_time = lastSeen

\* C12 (as claimed): connected is false after a failed liveness check and
\* after a recovery wait that timed out, and true only if a probe succeeded.
C12_ConnectedTracksLastCheck ==
    /\ (pc = "unwind" /\ ret = Returns("is_alive", "False")) => ~connected
    /\ (pc = "unwind" /\ ret = Raises("wait", REE)) => ~connected
    /\ connected => lastSeen # NoneBT

\* C13: a liveness probe of a host that does not answer returns False,
\* raises nothing and leaves connected and boot_time as they were; and when
\* reconnect returns False, boot_time is what it was when reconnect began.
C13_UnreachableChangesNothing ==
    /\ [][ (pc = "is_alive" /\ ~hostUp /\ pc' = "unwind") =>
             /\ ret' = Returns("is_alive", "False")
             /\ UNCHANGED <<connected, boot_time>> ]_vars
    /\ []( (pc = "unwind" /\ ret = Returns("reconnect", "False")) =>
             boot_time = rcPrev )

\* C13 witness: reconnect has returned False on an executor that an earlier
\* probe had connected, and the flag and the fingerprint are still there.
C13_Witness ==
    /\ pc = "unwind"
    /\ ret = Returns("reconnect", "False")
    /\ connected
    /\ Truthy(boot_time)

\* C14: is_alive on a host that answers returns True; and when the call
\* before it was an is_alive that returned True and the host has not
\* rebooted since, it leaves boot_time and connected unchanged.
C14_IdempotentProbing ==
    [][ (op = "is_alive" /\ pc = "is_alive" /\ hostUp /\ pc' = "unwind") =>
          /\ ret' = Returns("is_alive", "True")
          /\ lastAlive = hostBoot => UNCHANGED <<connected, boot_time>> ]_vars

\* C14 witness: a second is_alive in a row has returned True with the
\* fingerprint the first one stored.
C14_Witness ==
    /\ op = "is_alive" /\ Finished
    /\ ret = Returns("is_alive", "True")
    /\ Truthy(lastAlive)
    /\ lastAlive = boot_time

\* C15: connected implies that boot_time is not None, and when reconnect
\* returns True the executor is connected with a boot_time that is not None.
C15_ConnectedHasBootTime ==
    /\ connected => boot_time # NoneBT
    /\ (pc = "unwind" /\ ret = Returns("reconnect", "True")) =>
          (connected /\ boot_time # NoneBT)

\* C15 witness: reconnect has returned True.
C15_Witness ==
    /\ pc = "unwind"
    /\ ret = Returns("reconnect", "True")
    /\ op = "reconnect"

\* C16 (as claimed): the exit code is read only after both pipes are
\* drained to end-of-file, and the executor is never blocked reading
\* standard output while the process is blocked writing to a full
\* standard-error pipe.
C16_DrainNeverBlocks ==
    /\ pc = "se_wait" => (outBuf = 0 /\ errBuf = 0 /\ exited)
    /\ ~( /\ pc = "se_stdout" /\ outBuf = 0 /\ ~exited /\ hostUp
          /\ script # <<>> /\ Head(script) = "err" /\ errBuf = PipeCap )

\* C17 (as claimed): a finished stream_execute call of the mock has
\* returned normally or raised RemoteExecutionError or RemoteRebootDetected,
\* and it has returned normally whenever run_count is below
\* simulated_reboot_after.
C17_MockCallsReturn ==
    (InStreamExecute /\ Finished) =>
      /\ ret.kind = "return" \/ ret.val \in {REE, RRD}
      /\ run_count < simulated_reboot_after => ret.kind = "return"

\* C17 restricted to calls with the default retry_on_reboot=True.
MockDefaultCallsReturn ==
    (InStreamExecute /\ Finished /\ topRetry) =>
      /\ ret.kind = "return" \/ ret.val \in {REE, RRD}
      /\ run_count < simulated_reboot_after => ret.kind = "return"

\* C18 (as claimed): when reconnect has made its second query, boot_time is
\* not the empty fingerprint, and RemoteRebootDetected is raised only if the
\* two queries both answered and their fingerprints differ.
C18_RebootOnlyOnRealChange ==
    (pc = "unwind" /\ ret.fn = "reconnect" /\ ret.val # "False") =>
      /\ boot_time # Empty
      /\ ret.kind = "raise" =>
            (Truthy(rcSeen) /\ Truthy(boot_time) /\ boot_time # rcSeen)

\* C19 (as claimed): stream_execute with retry_on_reboot=False on a
\* not-connected executor whose reconnect returns True, and whose command
\* would exit 0, launches the command and returns normally.
C19_PlainReconnectThenRun ==
    ( /\ InStreamExecute /\ Finished /\ ~topRetry /\ ~startConnected
      /\ connected
      /\ <<RRD, 139, FALSE>> \notin causes
      /\ <<"OSError", 172, FALSE>> \notin causes
      /\ \A i \in 1..Len(codes) : codes[i] = 0 )
    => (launches >= 1 /\ ret = Returns("stream_execute", "None"))

\* C20: connected never goes from True to False, and stream_execute calls
\* reconnect only while no probe has ever succeeded.
C20_ConnectedIsMonotone ==
    [][ /\ connected => connected'
        /\ (pc = "se_entry" /\ pc' = "is_alive") => lastSeen = NoneBT ]_vars

\* C20 witness: a stream_execute call has failed on a recovery timeout and
\* the executor is still connected.
C20_Witness ==
    /\ InStreamExecute /\ Finished /\ timedOut
    /\ connected

====
